---- MODULE Spec2Model ----
(***************************************************************************)
(* Version-constraint algebra of package semver (constraints.go):          *)
(* NewConstraint with its memoization cache, Intersection and Union.       *)
(*                                                                         *)
(* Versions are a totally ordered value type.  The versions that occur in  *)
(* constraints (as a Point or as a bound of a Range) are the "named"       *)
(* versions; between, below and above any two of them the ordering holds   *)
(* further versions (pre-releases, patch releases), so every second value  *)
(* of the order is a named one and the others only ever get matched.       *)
(***************************************************************************)
EXTENDS Integers, Sequences, FiniteSets

VARIABLES
    cg, op, result,                  \* a call of Union or Intersection
    constraintCache, cacheConstraints,   \* the package's cache and its switch
    in, final, err, parsed, state,   \* a sequential call of NewConstraint
    pc, tin, tfinal, fatal           \* concurrent calls of NewConstraint

algebraVars == <<cg, op, result>>
cacheVars == <<constraintCache, cacheConstraints>>
callVars == <<in, final, err, parsed, state>>
threadVars == <<pc, tin, tfinal, fatal>>
vars == <<algebraVars, cacheVars, callVars, threadVars>>

\* ------------------------------------------------------------------ bounds
NumNamed == 2
MaxArgs == 2
MaxReal == 3
MaxExprLen == 3
MaxCached == 2
NumThreads == 2

Versions == 0..(2 * NumNamed)
Named == {2 * i - 1 : i \in 1..NumNamed}

\* ------------------------------------------------------- constraint values
\* A *Version pointer that may be nil (an unbounded side of a range).
Nil == <<>>
Ptr(v) == <<v>>

Any == [kind |-> "any"]
None == [kind |-> "none"]
Version(v) == [kind |-> "version", v |-> v]
rangeConstraint(min, includeMin, max, includeMax) ==
    [kind |-> "range", min |-> min, includeMin |-> includeMin,
     max |-> max, includeMax |-> includeMax]
unionConstraint(members) == [kind |-> "union", members |-> members]

IsNone(c) == c.kind = "none"
IsAny(c) == c.kind = "any"
IsReal(c) == c.kind \in {"version", "range"}

Last(s) == s[Len(s)]
Front(s) == SubSeq(s, 1, Len(s) - 1)

\* ----------------------------------------------------------------- Matches
RangeMatches(rc, v) ==
    /\ rc.min = Nil \/ (IF rc.includeMin THEN rc.min[1] <= v ELSE rc.min[1] < v)
    /\ rc.max = Nil \/ (IF rc.includeMax THEN v <= rc.max[1] ELSE v < rc.max[1])

Matches(c, v) ==
    CASE c.kind = "any" -> TRUE
      [] c.kind = "none" -> FALSE
      [] c.kind = "version" -> c.v = v
      [] c.kind = "range" -> RangeMatches(c, v)
      [] c.kind = "union" -> \E i \in 1..Len(c.members) :
                                IF c.members[i].kind = "version"
                                THEN c.members[i].v = v
                                ELSE RangeMatches(c.members[i], v)

\* ------------------------------------------------- pairwise Intersect/Union
\* The tighter of two lower bounds, as <<min, includeMin>>.
TightMin(a, b) ==
    CASE a.min = Nil -> <<b.min, b.includeMin>>
      [] b.min = Nil -> <<a.min, a.includeMin>>
      [] a.min[1] < b.min[1] -> <<b.min, b.includeMin>>
      [] b.min[1] < a.min[1] -> <<a.min, a.includeMin>>
      [] OTHER -> <<a.min, a.includeMin /\ b.includeMin>>

TightMax(a, b) ==
    CASE a.max = Nil -> <<b.max, b.includeMax>>
      [] b.max = Nil -> <<a.max, a.includeMax>>
      [] a.max[1] > b.max[1] -> <<b.max, b.includeMax>>
      [] b.max[1] > a.max[1] -> <<a.max, a.includeMax>>
      [] OTHER -> <<a.max, a.includeMax /\ b.includeMax>>

\* The looser of two lower bounds.
WideMin(a, b) ==
    CASE a.min = Nil \/ b.min = Nil -> <<Nil, FALSE>>
      [] a.min[1] < b.min[1] -> <<a.min, a.includeMin>>
      [] b.min[1] < a.min[1] -> <<b.min, b.includeMin>>
      [] OTHER -> <<a.min, a.includeMin \/ b.includeMin>>

WideMax(a, b) ==
    CASE a.max = Nil \/ b.max = Nil -> <<Nil, FALSE>>
      [] a.max[1] > b.max[1] -> <<a.max, a.includeMax>>
      [] b.max[1] > a.max[1] -> <<b.max, b.includeMax>>
      [] OTHER -> <<a.max, a.includeMax \/ b.includeMax>>

\* rangeConstraint.Intersect(rangeConstraint): the overlapping sub-interval,
\* the single version of a zero-width inclusive overlap, or none.
RangeIntersectRange(a, b) ==
    LET lo == TightMin(a, b)
        hi == TightMax(a, b)
    IN  IF lo[1] = Nil \/ hi[1] = Nil
        THEN rangeConstraint(lo[1], lo[2], hi[1], hi[2])
        ELSE IF lo[1][1] = hi[1][1]
        THEN (IF lo[2] /\ hi[2] THEN Version(lo[1][1]) ELSE None)
        ELSE IF lo[1][1] > hi[1][1]
        THEN None
        ELSE rangeConstraint(lo[1], lo[2], hi[1], hi[2])

\* Intersect between two real constraints (*Version or rangeConstraint).
RealIntersect(a, b) ==
    CASE a.kind = "version" /\ b.kind = "version" -> IF a.v = b.v THEN a ELSE None
      [] a.kind = "version" /\ b.kind = "range" ->
            IF RangeMatches(b, a.v) THEN a ELSE None
      [] a.kind = "range" /\ b.kind = "version" ->
            IF RangeMatches(a, b.v) THEN b ELSE None
      [] a.kind = "range" /\ b.kind = "range" -> RangeIntersectRange(a, b)

\* rangeConstraint.MatchesAny(rangeConstraint): the intersection is non-empty.
RangeMatchesAny(a, b) == ~IsNone(RangeIntersectRange(a, b))

\* areAdjacent(c1, c2): c1 ends where c2 begins with no version left between
\* them: the shared bound is inclusive on at least one side, or c1's inclusive
\* upper bound is immediately followed by c2's inclusive lower bound.
areAdjacent(c1, c2) ==
    /\ c1.kind = "range" /\ c2.kind = "range"
    /\ c1.max # Nil /\ c2.min # Nil
    /\ \/ c1.max[1] = c2.min[1] /\ (c1.includeMax \/ c2.includeMin)
       \/ /\ c1.max[1] < c2.min[1]
          /\ c1.includeMax /\ c2.includeMin
          /\ ~\E v \in Versions : c1.max[1] < v /\ v < c2.min[1]

\* rangeConstraint.Union(*Version): the range itself when it holds the
\* version, the range widened by one bound when the version is that excluded
\* bound, and otherwise the two side by side in ascending order.
RangeUnionVersion(rc, ver) ==
    IF RangeMatches(rc, ver.v) THEN rc
    ELSE IF rc.min # Nil /\ rc.min[1] = ver.v
    THEN rangeConstraint(rc.min, TRUE, rc.max, rc.includeMax)
    ELSE IF rc.max # Nil /\ rc.max[1] = ver.v
    THEN rangeConstraint(rc.min, rc.includeMin, rc.max, TRUE)
    ELSE IF rc.min # Nil /\ ver.v < rc.min[1]
    THEN unionConstraint(<<ver, rc>>)
    ELSE unionConstraint(<<rc, ver>>)

\* rangeConstraint.Union(rangeConstraint) of two ranges that overlap or are
\* adjacent: the range from the lower of the lower bounds to the higher of
\* the upper bounds.
RangeUnionRange(a, b) ==
    LET lo == WideMin(a, b)
        hi == WideMax(a, b)
    IN  rangeConstraint(lo[1], lo[2], hi[1], hi[2])

\* ------------------------------------------------------- constraintList sort
\* constraintList.Less: ascending by effective lower bound; a version's
\* position is its own value and an unbounded-below range sorts first.
Less(ic, jc) ==
    CASE ic.kind = "version" /\ jc.kind = "version" -> ic.v < jc.v
      [] ic.kind = "version" /\ jc.kind = "range" ->
            jc.min # Nil /\ ic.v < jc.min[1]
      [] ic.kind = "range" /\ jc.kind = "version" ->
            ic.min = Nil \/ ic.min[1] < jc.v
      [] ic.kind = "range" /\ jc.kind = "range" ->
            jc.min # Nil /\ (ic.min = Nil \/ ic.min[1] < jc.min[1])

\* One pass of the inner loop of insertion sort: the element at the end of
\* sorted ++ <<x>> moves down while it is Less than its predecessor.
RECURSIVE Insert(_, _)
Insert(sorted, x) ==
    IF sorted = <<>> \/ ~Less(x, Last(sorted))
    THEN Append(sorted, x)
    ELSE Append(Insert(Front(sorted), x), Last(sorted))

\* sort.Sort(real): for the lists of at most twelve elements that arise
\* here the library runs an insertion sort, which keeps the input order of
\* elements neither of which is Less than the other.
RECURSIVE SortList(_)
SortList(real) ==
    IF real = <<>> THEN <<>>
    ELSE Insert(SortList(Front(real)), Last(real))

\* --------------------------------------------------------------------- Union
\* First pass of Union and of Intersection: the *Version and rangeConstraint
\* arguments and the members of the unionConstraint arguments, in order.
RECURSIVE Flatten(_)
Flatten(args) ==
    IF args = <<>> THEN <<>>
    ELSE LET c == Last(args)
             rest == Flatten(Front(args))
         IN  CASE c.kind \in {"any", "none"} -> rest
               [] c.kind \in {"version", "range"} -> Append(rest, c)
               [] c.kind = "union" -> rest \o c.members

\* The merge loop merging two ranges in a row without testing that they
\* overlap or are adjacent.
MergeStepAlwaysMerges(nuc, c) ==
    IF Len(nuc) = 0 THEN Append(nuc, c)
    ELSE LET lt == Last(nuc) IN
         CASE lt.kind = "version" /\ c.kind = "version" ->
                IF lt.v # c.v THEN Append(nuc, c) ELSE nuc
           [] lt.kind = "version" /\ c.kind = "range" -> Append(nuc, c)
           [] lt.kind = "range" /\ c.kind = "version" ->
                LET c2 == RangeUnionVersion(lt, c)
                IN  IF IsReal(c2) THEN Append(Front(nuc), c2)
                    ELSE Front(nuc) \o c2.members
           [] lt.kind = "range" /\ c.kind = "range" ->
                Append(Front(nuc), RangeUnionRange(lt, c))

\* One iteration of the merge loop: c is folded into the members nuc.
MergeStep(nuc, c) ==
    IF Len(nuc) = 0 THEN Append(nuc, c)
    ELSE LET lt == Last(nuc) IN
         CASE lt.kind = "version" /\ c.kind = "version" ->
                IF lt.v # c.v THEN Append(nuc, c) ELSE nuc
           [] lt.kind = "version" /\ c.kind = "range" -> Append(nuc, c)
           [] lt.kind = "range" /\ c.kind = "version" ->
                LET c2 == RangeUnionVersion(lt, c)
                IN  IF IsReal(c2) THEN Append(Front(nuc), c2)
                    ELSE Front(nuc) \o c2.members
           [] lt.kind = "range" /\ c.kind = "range" ->
                IF RangeMatchesAny(lt, c) \/ areAdjacent(lt, c)
                THEN Append(Front(nuc), RangeUnionRange(lt, c))
                ELSE Append(nuc, c)

RECURSIVE Merge(_)
Merge(real) ==
    IF real = <<>> THEN <<>>
    ELSE MergeStep(Merge(Front(real)), Last(real))

\* Union without the sort of the flattened list.
UnionWithoutSort(args) ==
    IF Len(args) = 0 THEN None
    ELSE IF Len(args) = 1 THEN args[1]
    ELSE IF \E i \in 1..Len(args) : IsAny(args[i]) THEN Any
    ELSE LET nuc == Merge(Flatten(args))
         IN  IF Len(nuc) = 1 THEN nuc[1] ELSE unionConstraint(nuc)

Union(args) ==
    IF Len(args) = 0 THEN None
    ELSE IF Len(args) = 1 THEN args[1]
    ELSE IF \E i \in 1..Len(args) : IsAny(args[i]) THEN Any
    ELSE LET nuc == Merge(SortList(Flatten(args)))
         IN  IF Len(nuc) = 1 THEN nuc[1] ELSE unionConstraint(nuc)

\* ------------------------------------------------------------- Intersection
\* unionConstraint.Intersect: the union of the non-empty pairwise
\* intersections of its members with the other side's members.
RECURSIVE PairwiseIntersect(_, _, _)
PairwiseIntersect(uc, other, k) ==
    IF k > Len(uc) * Len(other) THEN <<>>
    ELSE LET i == ((k - 1) \div Len(other)) + 1
             j == ((k - 1) % Len(other)) + 1
             x == RealIntersect(uc[i], other[j])
             rest == PairwiseIntersect(uc, other, k + 1)
         IN  IF IsNone(x) THEN rest ELSE <<x>> \o rest

UnionIntersect(uc, c2) ==
    CASE c2.kind = "none" -> None
      [] c2.kind = "any" -> uc
      [] c2.kind = "union" -> Union(PairwiseIntersect(uc.members, c2.members, 1))
      [] OTHER -> Union(PairwiseIntersect(uc.members, <<c2>>, 1))

\* Constraint.Intersect, dispatched on the receiver's type.
Intersect(a, b) ==
    CASE a.kind = "any" -> b
      [] a.kind = "none" -> None
      [] a.kind = "union" -> UnionIntersect(a, b)
      [] b.kind = "any" -> a
      [] b.kind = "none" -> None
      [] b.kind = "union" -> UnionIntersect(b, a)
      [] OTHER -> RealIntersect(a, b)

\* The fold stopping one element short of the end of cdr.
RECURSIVE FoldStopsShort(_, _)
FoldStopsShort(car, cdr) ==
    IF Len(cdr) <= 1 THEN car
    ELSE LET next == Intersect(car, cdr[1])
         IN  IF IsNone(next) THEN None ELSE FoldStopsShort(next, Tail(cdr))

\* The pairwise fold of Intersection over cdr, starting from car.
RECURSIVE Fold(_, _)
Fold(car, cdr) ==
    IF cdr = <<>> THEN car
    ELSE LET next == Intersect(car, cdr[1])
         IN  IF IsNone(next) THEN None ELSE Fold(next, Tail(cdr))

\* Intersection taking car from the second argument.
IntersectionSkipsFirst(args) ==
    IF Len(args) = 0 THEN None
    ELSE IF Len(args) = 1 THEN args[1]
    ELSE IF \E i \in 1..Len(args) : IsNone(args[i]) THEN None
    ELSE Fold(args[2], Tail(Tail(args)))

\* Intersection: the first pass returns none for a none argument; the list
\* it flattens and sorts besides is not read by the fold, which runs over
\* the arguments as given.
Intersection(args) ==
    IF Len(args) = 0 THEN None
    ELSE IF Len(args) = 1 THEN args[1]
    ELSE IF \E i \in 1..Len(args) : IsNone(args[i]) THEN None
    ELSE Fold(args[1], Tail(args))

\* ------------------------------------------------- canonical constraints
Bounds == {<<Nil, FALSE>>} \cup {<<Ptr(v), b>> : v \in Named, b \in BOOLEAN}

Points == {Version(v) : v \in Named}

\* Valid ranges: a lower bound, if present, lies strictly below the upper.
Ranges ==
    {rangeConstraint(p[1][1], p[1][2], p[2][1], p[2][2]) :
        p \in {q \in Bounds \X Bounds :
                  q[1][1] = Nil \/ q[2][1] = Nil \/ q[1][1][1] < q[2][1][1]}}

Reals == Points \cup Ranges

LowerOf(c) == IF c.kind = "version" THEN <<Ptr(c.v), TRUE>> ELSE <<c.min, c.includeMin>>
UpperOf(c) == IF c.kind = "version" THEN <<Ptr(c.v), TRUE>> ELSE <<c.max, c.includeMax>>

\* a lies wholly below b, and some version between them belongs to neither.
Separated(a, b) ==
    LET ua == UpperOf(a)
        lb == LowerOf(b)
    IN  /\ ua[1] # Nil /\ lb[1] # Nil
        /\ \/ ua[1][1] < lb[1][1]
           \/ ua[1][1] = lb[1][1] /\ ~ua[2] /\ ~lb[2]

\* Member sequences of n ascending, pairwise separated points and ranges.
RECURSIVE CanonMembers(_)
CanonMembers(n) ==
    IF n = 1 THEN {<<r>> : r \in Reals}
    ELSE {Append(p[1], p[2]) :
            p \in {q \in CanonMembers(n - 1) \X Reals : Separated(Last(q[1]), q[2])}}

UnionSets ==
    {unionConstraint(s) : s \in UNION {CanonMembers(n) : n \in 2..(NumNamed + 1)}}

Canonical == {Any, None} \cup Reals \cup UnionSets

\* Argument lists of a call: at most MaxArgs canonical constraints that
\* flatten to at most MaxReal points and ranges.
IsArgs(args) == Len(Flatten(args)) <= MaxReal

\* ------------------------------------------------------------ expressions
\* An expression string is a sequence of symbols: the separators "||" and
\* ",", comparator tokens (an operator and a version) and hyphen ranges.
OrSep == [t |-> "||", op |-> "", v |-> 0, w |-> 0]
AndSep == [t |-> ",", op |-> "", v |-> 0, w |-> 0]
Leaf(o, v) == [t |-> "leaf", op |-> o, v |-> v, w |-> 0]
Hyphen(lo, hi) == [t |-> "hyphen", op |-> "-", v |-> lo, w |-> hi]

constraintOps == {"", "=", "!=", ">", "<", ">=", "=>", "<=", "=<", "~", "~>", "^"}

Symbols ==
    {OrSep, AndSep, Hyphen(1, 3), Leaf(">=", 1), Leaf("=~", 3)}

Exprs == UNION {[1..n -> Symbols] : n \in 1..MaxExprLen}

\* rewriteRange: every hyphen range "lo - hi" becomes ">= lo, <= hi".
RECURSIVE rewriteRange(_)
rewriteRange(i) ==
    IF i = <<>> THEN <<>>
    ELSE IF i[1].t = "hyphen"
    THEN <<Leaf(">=", i[1].v), AndSep, Leaf("<=", i[1].w)>> \o rewriteRange(Tail(i))
    ELSE <<i[1]>> \o rewriteRange(Tail(i))

\* strings.Split(s, sep): the pieces of s between the separators, empty
\* pieces included; n separators give n + 1 pieces.
RECURSIVE Split(_, _)
Split(s, sep) ==
    IF s = <<>> THEN << <<>> >>
    ELSE LET rest == Split(Tail(s), sep)
         IN  IF s[1] = sep THEN << <<>> >> \o rest
             ELSE << <<s[1]>> \o rest[1] >> \o Tail(rest)

NilConstraint == [kind |-> "nil"]

\* parseConstraint: one trimmed comparator token to a point or a range, or
\* an error for a piece that is not exactly one well-formed token.
parseConstraint(s) ==
    IF Len(s) # 1 \/ s[1].t # "leaf" \/ s[1].op \notin constraintOps
    THEN [err |-> TRUE, c |-> NilConstraint]
    ELSE LET o == s[1].op
             v == s[1].v
         IN  [err |-> FALSE,
              c |-> CASE o \in {"", "="} -> Version(v)
                      [] o = ">" -> rangeConstraint(Ptr(v), FALSE, Nil, FALSE)
                      [] o \in {">=", "=>"} -> rangeConstraint(Ptr(v), TRUE, Nil, FALSE)
                      [] o = "<" -> rangeConstraint(Nil, FALSE, Ptr(v), FALSE)
                      [] o \in {"<=", "=<"} -> rangeConstraint(Nil, FALSE, Ptr(v), TRUE)]

\* The inner loop of NewConstraint over the comma-separated pieces cs of one
\* "||" group: the parsed constraints, or the first error.
RECURSIVE ParseGroup(_)
ParseGroup(cs) ==
    IF cs = <<>> THEN [err |-> FALSE, result |-> <<>>]
    ELSE LET pc1 == parseConstraint(cs[1])
         IN  IF pc1.err THEN [err |-> TRUE, result |-> <<>>]
             ELSE LET rest == ParseGroup(Tail(cs))
                  IN  IF rest.err THEN rest
                      ELSE [err |-> FALSE, result |-> <<pc1.c>> \o rest.result]

\* The outer loop over the "||" groups: or[k] = Intersection(result...).
RECURSIVE ParseOrs(_)
ParseOrs(ors) ==
    IF ors = <<>> THEN [err |-> FALSE, or |-> <<>>]
    ELSE LET g == ParseGroup(Split(ors[1], AndSep))
         IN  IF g.err THEN [err |-> TRUE, or |-> <<>>]
             ELSE LET rest == ParseOrs(Tail(ors))
                  IN  IF rest.err THEN rest
                      ELSE [err |-> FALSE, or |-> <<Intersection(g.result)>> \o rest.or]

\* NewConstraint past the cache lookup: rewrite, split, parse, combine.
ParseExpr(i) ==
    LET c == rewriteRange(i)
        r == ParseOrs(Split(c, OrSep))
    IN  IF r.err THEN [err |-> TRUE, final |-> NilConstraint]
        ELSE [err |-> FALSE, final |-> Union(r.or)]

Store(cache, key, value) ==
    [k \in DOMAIN cache \cup {key} |-> IF k = key THEN value ELSE cache[k]]

\* ------------------------------------------------------------ specification
Threads == 1..NumThreads

EmptyCache == [k \in {} |-> None]

AlgebraIdle == cg = <<>> /\ op = "idle" /\ result = None
CacheEmpty == constraintCache = EmptyCache
CallIdle ==
    in = <<>> /\ final = NilConstraint /\ err = FALSE /\ parsed = FALSE /\ state = "idle"
ThreadsIdle ==
    /\ pc = [t \in Threads |-> "idle"]
    /\ tin = [t \in Threads |-> <<>>]
    /\ tfinal = [t \in Threads |-> NilConstraint]
    /\ fatal = FALSE

\* ---- Union and Intersection applied to argument lists
InitAlgebra ==
    /\ \E n \in 0..MaxArgs : cg \in {args \in [1..n -> Canonical] : IsArgs(args)}
    /\ op = "idle"
    /\ result = None
    /\ CacheEmpty /\ cacheConstraints = TRUE /\ CallIdle /\ ThreadsIdle

CallUnion ==
    /\ op = "idle"
    /\ op' = "Union"
    /\ result' = Union(cg)
    /\ UNCHANGED <<cg, cacheVars, callVars, threadVars>>

CallIntersection ==
    /\ op = "idle"
    /\ op' = "Intersection"
    /\ result' = Intersection(cg)
    /\ UNCHANGED <<cg, cacheVars, callVars, threadVars>>

NextAlgebra == CallUnion \/ CallIntersection

SpecAlgebra == InitAlgebra /\ [][NextAlgebra]_vars

\* ---- NewConstraint called from one thread, one call after the other
InitParse ==
    /\ AlgebraIdle /\ CacheEmpty /\ CallIdle /\ ThreadsIdle
    /\ cacheConstraints \in BOOLEAN

\* The cache holds at most MaxCached entries: a call that would add one more
\* is not made.
CanCache(i) ==
    \/ ~cacheConstraints
    \/ i \in DOMAIN constraintCache
    \/ ParseExpr(i).err
    \/ Cardinality(DOMAIN constraintCache) < MaxCached

\* NewConstraint writing the cache before it looks at the error.
NewConstraintCachesFailure(i) ==
    /\ state = "idle"
    /\ CanCache(i)
    /\ state' = "returned"
    /\ in' = i
    /\ IF cacheConstraints /\ i \in DOMAIN constraintCache
       THEN /\ final' = constraintCache[i]
            /\ err' = FALSE
            /\ parsed' = FALSE
            /\ UNCHANGED constraintCache
       ELSE LET r == ParseExpr(i)
            IN  /\ parsed' = TRUE
                /\ err' = r.err
                /\ final' = r.final
                /\ constraintCache' =
                      IF cacheConstraints
                      THEN Store(constraintCache, i, r.final)
                      ELSE constraintCache
    /\ UNCHANGED <<cacheConstraints, algebraVars, threadVars>>

\* NewConstraint without the cache lookup.
NewConstraintNoLookup(i) ==
    /\ state = "idle"
    /\ CanCache(i)
    /\ state' = "returned"
    /\ in' = i
    /\ LET r == ParseExpr(i)
       IN  /\ parsed' = TRUE
           /\ err' = r.err
           /\ final' = r.final
           /\ constraintCache' =
                 IF ~r.err /\ cacheConstraints
                 THEN Store(constraintCache, i, r.final)
                 ELSE constraintCache
    /\ UNCHANGED <<cacheConstraints, algebraVars, threadVars>>

\* NewConstraint(in), from entry to return.
NewConstraint(i) ==
    /\ state = "idle"
    /\ CanCache(i)
    /\ state' = "returned"
    /\ in' = i
    /\ IF cacheConstraints /\ i \in DOMAIN constraintCache
       THEN /\ final' = constraintCache[i]
            /\ err' = FALSE
            /\ parsed' = FALSE
            /\ UNCHANGED constraintCache
       ELSE LET r == ParseExpr(i)
            IN  /\ parsed' = TRUE
                /\ err' = r.err
                /\ final' = r.final
                /\ constraintCache' =
                      IF ~r.err /\ cacheConstraints
                      THEN Store(constraintCache, i, r.final)
                      ELSE constraintCache
    /\ UNCHANGED <<cacheConstraints, algebraVars, threadVars>>

\* The caller takes the returned values; the next call can start.
Return ==
    /\ state = "returned"
    /\ state' = "idle"
    /\ in' = <<>> /\ final' = NilConstraint /\ err' = FALSE /\ parsed' = FALSE
    /\ UNCHANGED <<cacheVars, algebraVars, threadVars>>

NextParse == (\E i \in Exprs : NewConstraint(i)) \/ Return

SpecParse == InitParse /\ [][NextParse]_vars

\* ---- NewConstraint called from several threads at once
\* The expressions the threads pass: a single token or hyphen range.
ThreadExprs == {e \in Exprs : Len(e) = 1 /\ e[1].t \in {"leaf", "hyphen"}}

InitConcurrent ==
    /\ AlgebraIdle /\ CacheEmpty /\ CallIdle /\ ThreadsIdle
    /\ cacheConstraints \in BOOLEAN

\* Some other thread is inside the assignment constraintCache[in] = final.
OtherWriting(t) == \E u \in Threads \ {t} : pc[u] = "writing"

\* Thread t enters NewConstraint(i) and, with caching on, starts the lookup
\* constraintCache[in].
Enter(t, i) ==
    /\ ~fatal /\ pc[t] = "idle"
    /\ tin' = [tin EXCEPT ![t] = i]
    /\ pc' = [pc EXCEPT ![t] = IF cacheConstraints THEN "reading" ELSE "parsing"]
    /\ UNCHANGED <<tfinal, fatal, cacheVars, algebraVars, callVars>>

\* The lookup completes with what the map holds.  Overlapping a write of the
\* same key by another thread, it may already see the entry being written.
EndRead(t) ==
    /\ ~fatal /\ pc[t] = "reading"
    /\ \/ /\ tin[t] \in DOMAIN constraintCache
          /\ tfinal' = [tfinal EXCEPT ![t] = constraintCache[tin[t]]]
          /\ pc' = [pc EXCEPT ![t] = "done"]
       \/ /\ tin[t] \notin DOMAIN constraintCache
          /\ pc' = [pc EXCEPT ![t] = "parsing"]
          /\ UNCHANGED tfinal
       \/ /\ tin[t] \notin DOMAIN constraintCache
          /\ \E u \in Threads \ {t} :
                /\ pc[u] = "writing" /\ tin[u] = tin[t]
                /\ tfinal' = [tfinal EXCEPT ![t] = tfinal[u]]
          /\ pc' = [pc EXCEPT ![t] = "done"]
    /\ UNCHANGED <<tin, fatal, cacheVars, algebraVars, callVars>>

\* Rewrite, split, parse and combine; an error returns at once.
Parse(t) ==
    /\ ~fatal /\ pc[t] = "parsing"
    /\ LET r == ParseExpr(tin[t])
       IN  /\ tfinal' = [tfinal EXCEPT ![t] = r.final]
           /\ pc' = [pc EXCEPT ![t] =
                 IF r.err \/ ~cacheConstraints THEN "done" ELSE "parsed"]
    /\ UNCHANGED <<tin, fatal, cacheVars, algebraVars, callVars>>

\* The assignment constraintCache[in] = final starts ...
StartWrite(t) ==
    /\ ~fatal /\ pc[t] = "parsed"
    /\ pc' = [pc EXCEPT ![t] = "writing"]
    /\ UNCHANGED <<tin, tfinal, fatal, cacheVars, algebraVars, callVars>>

\* ... and completes.
EndWrite(t) ==
    /\ ~fatal /\ pc[t] = "writing"
    /\ constraintCache' = Store(constraintCache, tin[t], tfinal[t])
    /\ pc' = [pc EXCEPT ![t] = "done"]
    /\ UNCHANGED <<tin, tfinal, fatal, cacheConstraints, algebraVars, callVars>>

\* The runtime notices a map access overlapping a map write and aborts the
\* process.
Throw(t) ==
    /\ ~fatal /\ pc[t] \in {"reading", "writing"}
    /\ OtherWriting(t)
    /\ fatal' = TRUE
    /\ UNCHANGED <<pc, tin, tfinal, cacheVars, algebraVars, callVars>>

NextConcurrent ==
    \E t \in Threads :
        \/ \E i \in ThreadExprs : Enter(t, i)
        \/ EndRead(t)
        \/ Parse(t)
        \/ StartWrite(t)
        \/ EndWrite(t)
        \/ Throw(t)

SpecConcurrent == InitConcurrent /\ [][NextConcurrent]_vars

\* ------------------------------------------------------------------ claims
\* Some argument matches v / every argument matches v.
AnyArgMatches(args, v) == \E i \in 1..Len(args) : Matches(args[i], v)
AllArgsMatch(args, v) == \A i \in 1..Len(args) : Matches(args[i], v)

Perms(n) == {f \in [1..n -> 1..n] : \A i, j \in 1..n : f[i] = f[j] => i = j}
Permuted(args, f) == [i \in 1..Len(args) |-> args[f[i]]]

\* C1: for two or more canonical constraints, the constraint Union returns
\* matches a version exactly when at least one argument matches it.
C1_UnionMatchesIffSomeInput ==
    (op = "Union" /\ Len(cg) >= 2) =>
        \A v \in Versions : Matches(result, v) <=> AnyArgMatches(cg, v)

\* A union of a UnionSet with a range that merges part of it and still
\* leaves a UnionSet.
C1_Witness ==
    /\ op = "Union" /\ Len(cg) >= 2
    /\ \E i, j \in 1..Len(cg) : cg[i].kind = "union" /\ cg[j].kind = "range"
    /\ result.kind = "union"
    /\ result \notin {cg[i] : i \in 1..Len(cg)}

\* C2: for one or more canonical constraints, the constraint Intersection
\* returns matches a version exactly when every argument matches it, UnionSet
\* arguments included.
C2_IntersectionMatchesIffAllInputs ==
    (op = "Intersection" /\ Len(cg) >= 1) =>
        \A v \in Versions : Matches(result, v) <=> AllArgsMatch(cg, v)

\* An intersection of a UnionSet with a range that cuts it down to another
\* UnionSet.
C2_Witness ==
    /\ op = "Intersection" /\ Len(cg) >= 2
    /\ \E i, j \in 1..Len(cg) : cg[i].kind = "union" /\ cg[j].kind = "range"
    /\ result.kind = "union"
    /\ result \notin {cg[i] : i \in 1..Len(cg)}

\* Members are points and ranges, ascending and pairwise separated.
IsCanonicalMembers(m) ==
    /\ \A i \in 1..Len(m) : IsReal(m[i])
    /\ \A i, j \in 1..Len(m) : i < j => Separated(m[i], m[j])

\* C3: a UnionSet returned by Union (two or more canonical arguments) has
\* only points and ranges as members, in ascending order, pairwise disjoint
\* and non-adjacent.
C3_UnionSetMembersSeparated ==
    (op = "Union" /\ Len(cg) >= 2 /\ result.kind = "union") =>
        IsCanonicalMembers(result.members)

\* C4: a UnionSet returned by Union has at least two members; when every
\* argument is dropped as Empty, Union returns Empty.
C4_UnionSetHasTwoMembers ==
    (op = "Union" /\ Len(cg) >= 2) =>
        /\ result.kind = "union" => Len(result.members) >= 2
        /\ (\A i \in 1..Len(cg) : IsNone(cg[i])) => result = None

\* The versions left between two ranges: matched by neither, above a version
\* of one and below a version of the other.
GapBetween(a, b) ==
    {v \in Versions :
        /\ ~Matches(a, v) /\ ~Matches(b, v)
        /\ \E x, y \in Versions :
              /\ x < v /\ v < y
              /\ \/ Matches(a, x) /\ Matches(b, y)
                 \/ Matches(b, x) /\ Matches(a, y)}

SpanOf(a, b) ==
    rangeConstraint(WideMin(a, b)[1], WideMin(a, b)[2],
                    WideMax(a, b)[1], WideMax(a, b)[2])

\* C5: the union of two valid ranges is the single range from the lower of
\* the lower bounds to the higher of the upper bounds exactly when the two
\* overlap or are adjacent; otherwise it is the UnionSet of the two ranges in
\* ascending order, which no version of the gap between them matches.
C5_TwoRangesMergeIffConnected ==
    (op = "Union" /\ Len(cg) = 2 /\ cg[1].kind = "range" /\ cg[2].kind = "range") =>
        LET a == cg[1]
            b == cg[2]
            gap == GapBetween(a, b)
        IN  /\ (result = SpanOf(a, b)) <=> (gap = {})
            /\ result.kind = "range" <=> (gap = {})
            /\ gap # {} =>
                  /\ result \in {unionConstraint(<<a, b>>), unionConstraint(<<b, a>>)}
                  /\ Separated(result.members[1], result.members[2])
                  /\ \A v \in gap : ~Matches(result, v)

\* Two adjacent ranges merged into one range.
C5_WitnessMerged ==
    /\ op = "Union" /\ Len(cg) = 2
    /\ cg[1].kind = "range" /\ cg[2].kind = "range"
    /\ areAdjacent(cg[2], cg[1])
    /\ result.kind = "range" /\ result # cg[1] /\ result # cg[2]

\* C6: Union returns the same constraint for every permutation of its
\* arguments.
C6_UnionOrderIndependent ==
    op = "Union" =>
        \A f \in Perms(Len(cg)) : Union(Permuted(cg, f)) = result

HasFailingLeaf(e) ==
    LET ors == Split(rewriteRange(e), OrSep)
    IN  \E k \in 1..Len(ors) :
            LET cs == Split(ors[k], AndSep)
            IN  \E i \in 1..Len(cs) : parseConstraint(cs[i]).err

\* A step that is one whole call of NewConstraint.
IsCall == state = "idle" /\ state' = "returned"

\* C8: a call whose expression has a leaf token that fails to parse returns
\* an error and no constraint and leaves the cache exactly as it was, with no
\* entry for the expression; so does every later call with that expression.
C8_FailedParseLeavesCache ==
    [][(IsCall /\ HasFailingLeaf(in')) =>
          /\ err' /\ final' = NilConstraint
          /\ constraintCache' = constraintCache
          /\ in' \notin DOMAIN constraintCache']_vars

\* A failed call whose first "||" group parsed, made with a filled cache.
C8_Witness ==
    /\ state = "returned" /\ err /\ final = NilConstraint
    /\ Len(in) >= 3 /\ in[1] = Leaf(">=", 1) /\ in[2] = OrSep
    /\ DOMAIN constraintCache # {}

\* C9: with caching on, a call with an expression that is in the cache
\* returns the cached constraint without parsing; a call that parses
\* successfully leaves its result in the cache under the input string; and
\* no step removes or changes a cache entry.
C9_CachedParseIsReused ==
    [][cacheConstraints =>
          /\ (IsCall /\ in' \in DOMAIN constraintCache) =>
                final' = constraintCache[in'] /\ ~err' /\ ~parsed'
          /\ (IsCall /\ parsed' /\ ~err') =>
                in' \in DOMAIN constraintCache' /\ constraintCache'[in'] = final'
          /\ \A e \in DOMAIN constraintCache :
                e \in DOMAIN constraintCache' /\ constraintCache'[e] = constraintCache[e]]_vars

\* A call answered from a cache of two entries.
C9_Witness ==
    /\ state = "returned" /\ cacheConstraints
    /\ ~parsed /\ ~err
    /\ in \in DOMAIN constraintCache /\ final = constraintCache[in]
    /\ Cardinality(DOMAIN constraintCache) >= 2

\* C10: no two concurrent calls are inside a cache access at once when one of
\* the accesses is a write.
C10_CacheAccessMutuallyExclusive ==
    \A t, u \in Threads :
        t # u => ~(pc[t] = "writing" /\ pc[u] \in {"reading", "writing"})

====
